---- MODULE Spec2Model ----
(***************************************************************************)
(* Model of the GameCube controller enabler (gc_controller_enabler.py):    *)
(* the device session and its read thread, the Xbox 360 emulation bridge,  *)
(* report decoding and trigger calibration.                                *)
(***************************************************************************)
EXTENDS Integers, Sequences, FiniteSets, TLC

VARIABLES
    device,        \* self.device: None or a hid.device object (1..MaxHandles)
    hstate,        \* per hid.device object: "free", "new", "open", "closed"
    closeCalls,    \* per hid.device object: close() calls made after it was opened
    is_reading,    \* self.is_reading
    stop_reading,  \* self.stop_reading (threading.Event)
    read_thread,   \* self.read_thread: None or a thread (1..MaxThreads)
    is_emulating,  \* self.is_emulating
    gamepad,       \* self.gamepad: None or 1 (a VX360Gamepad object)
    pad,           \* the report being assembled inside the gamepad object
    committed,     \* the report last sent to the bus by gamepad.update()
    emulate_btn,   \* state of the "Emulate Xbox 360" button
    status,        \* last message handed to update_status
    available,     \* EMULATION_AVAILABLE
    ui,            \* position of the Tk main thread inside a handler
    tpc,           \* per read thread: position inside read_hid_loop
    th,            \* per read thread: device object its read() call was made on
    tdata,         \* per read thread: report returned by device.read
    tcal,          \* per read thread: calibrated triggers computed for the frame
    tcause,        \* per read thread: why the loop was left
    tpush,         \* per read thread: bookkeeping of the current push
    counter,       \* self._ui_update_counter (-1: attribute not yet created)
    cached,        \* self._cached_calibration (<<>>: attribute not yet created)
    calibration,   \* self.calibration
    hist,          \* observations of the run (not program state)
    fx             \* argument/result cell of the pure-function specifications

vars == <<device, hstate, closeCalls, is_reading, stop_reading, read_thread,
          is_emulating, gamepad, pad, committed, emulate_btn, status, available,
          ui, tpc, th, tdata, tcal, tcause, tpush, counter, cached, calibration,
          hist, fx>>

(***************************************************************************)
(* Bounds of the model.                                                    *)
(***************************************************************************)
MaxHandles == 2     \* hid.device objects created during a run
MaxThreads == 1     \* read threads alive at the same time
MaxFrames  == 2     \* full-length reports delivered by the device during a run
MaxBreak   == 2     \* breakpoint samples: 0, BreakStep, ..., MaxBreak * BreakStep
MaxEdits   == 2     \* entries of the calibration form edited before a save
MaxTimeouts == 2    \* consecutive empty reads that are told apart (session runs)
MaxSessionFrames == 3   \* full reports the device delivers in a session run
BreakStep  == 95    \* distance between two breakpoint samples

(***************************************************************************)
(* Program constants.                                                      *)
(***************************************************************************)
None       == 0
MinReport  == 15
StickMid   == 2048
StickScale == 32767
FullScale  == 255
UiEvery    == 3

Handles == 1..MaxHandles
Threads == 1..MaxThreads

(***************************************************************************)
(* Report decoding (process_controller_data).                              *)
(***************************************************************************)
\* data[i] with Python's zero-based index
At(data, i) == data[i + 1]

\* a variant that compares the byte with the mask instead of testing the bit
BitSetAtLeast(byte, mask) == byte >= mask

\* (byte & mask) != 0 for a single-bit mask
BitSet(byte, mask) == (byte \div mask) % 2 = 1

buttons ==
    << [byte_index |-> 3, mask |-> 1,  name |-> "B"],
       [byte_index |-> 3, mask |-> 2,  name |-> "A"],
       [byte_index |-> 3, mask |-> 4,  name |-> "Y"],
       [byte_index |-> 3, mask |-> 8,  name |-> "X"],
       [byte_index |-> 3, mask |-> 16, name |-> "R"],
       [byte_index |-> 3, mask |-> 32, name |-> "Z"],
       [byte_index |-> 3, mask |-> 64, name |-> "Start/Pause"],
       [byte_index |-> 4, mask |-> 1,  name |-> "Dpad Down"],
       [byte_index |-> 4, mask |-> 2,  name |-> "Dpad Right"],
       [byte_index |-> 4, mask |-> 4,  name |-> "Dpad Left"],
       [byte_index |-> 4, mask |-> 8,  name |-> "Dpad Up"],
       [byte_index |-> 4, mask |-> 16, name |-> "L"],
       [byte_index |-> 4, mask |-> 32, name |-> "ZL"],
       [byte_index |-> 5, mask |-> 1,  name |-> "Home"],
       [byte_index |-> 5, mask |-> 2,  name |-> "Capture"],
       [byte_index |-> 5, mask |-> 4,  name |-> "GR"],
       [byte_index |-> 5, mask |-> 8,  name |-> "GL"],
       [byte_index |-> 5, mask |-> 16, name |-> "Chat"] >>

\* button_states, as the set of names mapped to True
ButtonStates(data) ==
    { buttons[i].name : i \in { j \in 1..Len(buttons) :
          /\ Len(data) > buttons[j].byte_index
          /\ BitSet(At(data, buttons[j].byte_index), buttons[j].mask) } }

StickX(data, b) == At(data, b) + ((At(data, b + 1) % 16) * 256)
StickY(data, b) == (At(data, b + 1) \div 16) + (At(data, b + 2) * 16)

LeftTrigger(data)  == IF Len(data) > 13 THEN At(data, 13) ELSE 0
RightTrigger(data) == IF Len(data) > 14 THEN At(data, 14) ELSE 0

\* the frame handed to update_virtual_controller; sticks are kept as the raw
\* 12-bit samples, the normalised value being (raw - 2048) / 2048.0
Decode(data) ==
    [ lx |-> StickX(data, 6), ly |-> StickY(data, 6),
      rx |-> StickX(data, 9), ry |-> StickY(data, 9),
      pressed |-> ButtonStates(data),
      lt |-> LeftTrigger(data), rt |-> RightTrigger(data) ]

(***************************************************************************)
(* Trigger calibration (calibrate_trigger_fast / calibrate_trigger).       *)
(***************************************************************************)
Max2(a, b) == IF a >= b THEN a ELSE b
Min2(a, b) == IF a <= b THEN a ELSE b

\* int(x) of Python for the quotient n / d, d > 0: truncation toward zero
IntDiv(n, d) == IF n >= 0 THEN n \div d ELSE -((-n) \div d)

\* a variant that takes the bump range whatever the mode is
CalRangeBumpOnly(base, bump, max_val, bump100) == bump - base

CalRange(base, bump, max_val, bump100) ==
    IF bump100 THEN bump - base ELSE max_val - base

\* divisions evaluated by one call: the quotient is computed only past the
\* "if range_val <= 0: return 0" test
CalDivisions(base, bump, max_val, bump100) ==
    IF CalRange(base, bump, max_val, bump100) <= 0 THEN 0 ELSE 1

\* a variant whose last line wraps the result to a byte instead of clamping it
CalibrateWraps(raw_value, base, bump, max_val, bump100) ==
    LET calibrated == IF raw_value - base < 0 THEN 0 ELSE raw_value - base
        range_val  == CalRange(base, bump, max_val, bump100)
    IN IF range_val <= 0
         THEN 0
         ELSE IntDiv(calibrated * FullScale, range_val) % (FullScale + 1)

\* a variant whose last line returns result without clamping it
CalibrateNoClamp(raw_value, base, bump, max_val, bump100) ==
    LET calibrated == IF raw_value - base < 0 THEN 0 ELSE raw_value - base
        range_val  == CalRange(base, bump, max_val, bump100)
    IN IF range_val <= 0
         THEN 0
         ELSE IntDiv(calibrated * FullScale, range_val)

CalibrateBody(raw_value, base, bump, max_val, bump100) ==
    LET calibrated == IF raw_value - base < 0 THEN 0 ELSE raw_value - base
        range_val  == CalRange(base, bump, max_val, bump100)
    IN IF range_val <= 0
         THEN 0
         ELSE Max2(0, Min2(FullScale, IntDiv(calibrated * FullScale, range_val)))

\* calibrate_trigger_fast(raw_value, side), reading the profile `cal`
calibrate_trigger_fast(raw_value, side, cal) ==
    IF side = "left"
      THEN CalibrateBody(raw_value, cal.left_base, cal.left_bump, cal.left_max,
                         cal.bump_100_percent)
      ELSE CalibrateBody(raw_value, cal.right_base, cal.right_bump, cal.right_max,
                         cal.bump_100_percent)

\* calibrate_trigger(raw_value, side): the same computation on self.calibration
calibrate_trigger(raw_value, side, cal) ==
    IF side = "left"
      THEN CalibrateBody(raw_value, cal.left_base, cal.left_bump, cal.left_max,
                         cal.bump_100_percent)
      ELSE CalibrateBody(raw_value, cal.right_base, cal.right_bump, cal.right_max,
                         cal.bump_100_percent)

DefaultCalibration ==
    [ left_base |-> 32, left_bump |-> 190, left_max |-> 230,
      right_base |-> 32, right_bump |-> 190, right_max |-> 230,
      bump_100_percent |-> TRUE, emulation_mode |-> "xbox360" ]

(***************************************************************************)
(* The virtual Xbox 360 pad (vgamepad.VX360Gamepad) seen through the calls *)
(* update_virtual_controller and stop_xbox_emulation make on it.           *)
(***************************************************************************)
NeutralPad == [ lx |-> 0, ly |-> 0, rx |-> 0, ry |-> 0,
                pressed |-> {}, lt |-> 0, rt |-> 0 ]

\* int(max(-32767, min(32767, norm * stick_scale))), norm = (raw - 2048) / 2048.0
StickScaled(raw) ==
    Max2(-StickScale, Min2(StickScale,
         IntDiv((raw - StickMid) * StickScale, StickMid)))

\* gamepad.left_joystick(...) ; gamepad.right_joystick(...)
PadSticks(p, f) ==
    [p EXCEPT !.lx = StickScaled(f.lx), !.ly = StickScaled(f.ly),
              !.rx = StickScaled(f.rx), !.ry = StickScaled(f.ry)]

\* button_mapping, in the insertion order the loop iterates it
button_mapping ==
    << <<"A", "XUSB_GAMEPAD_A">>,
       <<"B", "XUSB_GAMEPAD_B">>,
       <<"X", "XUSB_GAMEPAD_X">>,
       <<"Y", "XUSB_GAMEPAD_Y">>,
       <<"Z", "XUSB_GAMEPAD_RIGHT_SHOULDER">>,
       <<"ZL", "XUSB_GAMEPAD_LEFT_SHOULDER">>,
       <<"Start/Pause", "XUSB_GAMEPAD_START">>,
       <<"Home", "XUSB_GAMEPAD_GUIDE">>,
       <<"Capture", "XUSB_GAMEPAD_BACK">>,
       <<"Chat", "XUSB_GAMEPAD_BACK">>,
       <<"Dpad Up", "XUSB_GAMEPAD_DPAD_UP">>,
       <<"Dpad Down", "XUSB_GAMEPAD_DPAD_DOWN">>,
       <<"Dpad Left", "XUSB_GAMEPAD_DPAD_LEFT">>,
       <<"Dpad Right", "XUSB_GAMEPAD_DPAD_RIGHT">> >>

\* one pass of "for button_name, xbox_button in button_mapping.items()":
\* press_button when the name is pressed, release_button otherwise
RECURSIVE MapButtons(_, _, _)
MapButtons(xpressed, button_states, i) ==
    IF i > Len(button_mapping)
      THEN xpressed
      ELSE MapButtons(
             IF button_mapping[i][1] \in button_states
               THEN xpressed \cup {button_mapping[i][2]}
               ELSE xpressed \ {button_mapping[i][2]},
             button_states, i + 1)

PadButtons(p, f) == [p EXCEPT !.pressed = MapButtons(p.pressed, f.pressed, 1)]

\* a variant without the L/R override
TriggerSentNoOverride(button_states, name, calibrated) == calibrated

\* the value passed to gamepad.left_trigger / gamepad.right_trigger
TriggerSent(button_states, name, calibrated) ==
    IF name \in button_states THEN FullScale ELSE calibrated

PadTriggers(p, f, ltc, rtc) ==
    [p EXCEPT !.lt = TriggerSent(f.pressed, "L", ltc),
              !.rt = TriggerSent(f.pressed, "R", rtc)]

\* the pad report after a whole update_virtual_controller call in which
\* nothing raises
PushPad(p, f, cal) ==
    PadTriggers(PadButtons(PadSticks(p, f), f), f,
                calibrate_trigger_fast(f.lt, "left", cal),
                calibrate_trigger_fast(f.rt, "right", cal))

(***************************************************************************)
(* Reports the device delivers in the session model.                       *)
(***************************************************************************)
\* a 15-byte report with both sticks centred
MkReport(b3, b4, b5, lt, rt) ==
    <<0, 0, 0, b3, b4, b5, 0, 8, 128, 0, 8, 128, 0, lt, rt>>

Timeout     == <<>>
ShortReport == SubSeq(MkReport(1, 0, 0, 0, 0), 1, MinReport - 1)
FullReports == { MkReport(0, 0, 2, 110, 0), MkReport(16, 16, 16, 40, 200) }
Reports     == {Timeout, ShortReport} \cup FullReports

(***************************************************************************)
(* State after GCControllerEnabler.__init__.                               *)
(***************************************************************************)
NoPush == [present |-> FALSE, err |-> FALSE, commits |-> 0, erred |-> FALSE,
           dropped |-> FALSE, timeouts |-> 0, loaded |-> 0]

NoHist == [ readOnClosed |-> FALSE,   \* device.read was called on a closed handle
            connFail |-> "none",      \* how the last connect_controller failed
            emuFail |-> FALSE,        \* the last handler was a start_emulation that failed
            resetOk |-> FALSE,        \* reset() and update() of the running stop_xbox_emulation both returned
            frames |-> 0,             \* full-length reports delivered
            pushes |-> 0,             \* update_virtual_controller calls past the guard
            pushErrs |-> 0,           \* of these, calls in which something raised
            commits |-> 0,            \* gamepad.update() calls made by pushes
            recovered |-> FALSE,      \* a thread committed a push after one of its pushes raised
            posts |-> 0,
            window |-> <<>> ]         \* posted or not, for the last frames counted             \* batches of display updates posted to the Tk thread

SessionInit ==
    /\ device = None
    /\ hstate = [h \in Handles |-> "free"]
    /\ closeCalls = [h \in Handles |-> 0]
    /\ is_reading = FALSE
    /\ stop_reading = FALSE
    /\ read_thread = None
    /\ is_emulating = FALSE
    /\ gamepad = None
    /\ pad = NeutralPad
    /\ committed = NeutralPad
    /\ emulate_btn = "disabled"
    /\ status = "Ready to connect"
    /\ ui = [pc |-> "idle", op |-> "none"]
    /\ tpc = [t \in Threads |-> "unborn"]
    /\ th = [t \in Threads |-> None]
    /\ tdata = [t \in Threads |-> <<>>]
    /\ tcal = [t \in Threads |-> <<0, 0>>]
    /\ tcause = [t \in Threads |-> "none"]
    /\ tpush = [t \in Threads |-> NoPush]
    /\ counter = -1
    /\ cached = <<>>
    /\ calibration = DefaultCalibration
    /\ hist = NoHist

Init ==
    /\ SessionInit
    /\ available \in BOOLEAN
    /\ fx = [kind |-> "none"]

(***************************************************************************)
(* Handlers of the Tk main thread.  A handler runs from "idle" back to     *)
(* "idle"; the read threads run between its statements.                    *)
(***************************************************************************)
Goto(pc) == ui' = [ui EXCEPT !.pc = pc]

FreeHandle == CHOOSE h \in Handles :
                  hstate[h] = "free" /\ \A g \in Handles : hstate[g] = "free" => h <= g
\* the thread objects a run can hold at the same time
Slots == DOMAIN tpc
\* a thread that has ended leaves its place to the next one created
Ended(t) == tpc[t] \in {"unborn", "done"}
FreeThread == CHOOSE t \in Slots : Ended(t) /\ \A u \in Slots : Ended(u) => t <= u

SessionVars == <<device, hstate, closeCalls, is_reading, stop_reading, read_thread>>
SinkVars    == <<is_emulating, gamepad, pad, committed>>
ThreadVars  == <<tpc, th, tdata, tcal, tcause, tpush, counter, cached>>
FixedVars   == <<available, calibration, fx>>

\* connect_controller, up to the choice between connecting and disconnecting
connect_controller ==
    /\ ui.pc = "idle"
    /\ IF is_reading
         THEN ui' = [pc |-> "sri_check", op |-> "disconnect"]
         ELSE /\ \E h \in Handles : hstate[h] = "free"
              /\ \E t \in Slots : Ended(t)
              /\ ui' = [pc |-> "usb", op |-> "connect"]
    /\ hist' = [hist EXCEPT !.connFail = "none", !.emuFail = FALSE]
    /\ UNCHANGED <<SessionVars, SinkVars, ThreadVars, FixedVars, emulate_btn, status>>

\* initialize_via_usb: device not found, a write raising, or success
initialize_via_usb ==
    /\ ui.pc = "usb"
    /\ \E outcome \in {"notfound", "writefail", "ok"} :
         /\ status' = CASE outcome = "notfound"  -> "Device not found"
                        [] outcome = "writefail" -> "USB initialization failed"
                        [] OTHER                 -> "USB initialization complete"
         /\ IF outcome = "ok"
              THEN /\ Goto("hid_new")
                   /\ hist' = hist
              ELSE /\ ui' = [pc |-> "idle", op |-> "none"]
                   /\ hist' = [hist EXCEPT !.connFail = "usb"]
    /\ UNCHANGED <<SessionVars, SinkVars, ThreadVars, FixedVars, emulate_btn>>

\* init_hid_device: self.device = hid.device()
init_hid_device_new ==
    /\ ui.pc = "hid_new"
    /\ device' = FreeHandle
    /\ hstate' = [hstate EXCEPT ![FreeHandle] = "new"]
    /\ status' = "Connecting via HID..."
    /\ Goto("hid_open")
    /\ UNCHANGED <<closeCalls, is_reading, stop_reading, read_thread, SinkVars,
                   ThreadVars, FixedVars, emulate_btn, hist>>

\* init_hid_device: self.device.open(...), which may raise
init_hid_device_open ==
    /\ ui.pc = "hid_open"
    /\ \E ok \in BOOLEAN :
         IF ok
           THEN /\ hstate' = [hstate EXCEPT ![device] = "open"]
                /\ device' = device
                /\ status' = "Connected via HID"
                /\ Goto("sr_check")
                /\ hist' = hist
           ELSE /\ hstate' = hstate
                /\ device' = device
                /\ status' = "HID connection failed"
                /\ ui' = [pc |-> "idle", op |-> "none"]
                /\ hist' = [hist EXCEPT !.connFail = "hid"]
    /\ UNCHANGED <<closeCalls, is_reading, stop_reading, read_thread, SinkVars,
                   ThreadVars, FixedVars, emulate_btn>>

\* start_reading: the guard and self.is_reading = True
start_reading_flag ==
    /\ ui.pc = "sr_check"
    /\ IF is_reading
         THEN /\ Goto("cc_fin")
              /\ is_reading' = is_reading
         ELSE /\ Goto("sr_clear")
              /\ is_reading' = TRUE
    /\ UNCHANGED <<device, hstate, closeCalls, stop_reading, read_thread, SinkVars,
                   ThreadVars, FixedVars, emulate_btn, status, hist>>

\* start_reading: self.stop_reading.clear()
start_reading_clear ==
    /\ ui.pc = "sr_clear"
    /\ stop_reading' = FALSE
    /\ Goto("sr_thread")
    /\ UNCHANGED <<device, hstate, closeCalls, is_reading, read_thread, SinkVars,
                   ThreadVars, FixedVars, emulate_btn, status, hist>>

\* start_reading: the thread is created and started
start_reading_thread ==
    /\ ui.pc = "sr_thread"
    /\ read_thread' = FreeThread
    /\ tpc' = [tpc EXCEPT ![FreeThread] = "loop"]
    /\ th' = [th EXCEPT ![FreeThread] = None]
    /\ tdata' = [tdata EXCEPT ![FreeThread] = <<>>]
    /\ tcal' = [tcal EXCEPT ![FreeThread] = <<0, 0>>]
    /\ tcause' = [tcause EXCEPT ![FreeThread] = "none"]
    /\ tpush' = [tpush EXCEPT ![FreeThread] = NoPush]
    /\ Goto("cc_fin")
    /\ UNCHANGED <<device, hstate, closeCalls, is_reading, stop_reading, SinkVars,
                   counter, cached, FixedVars, emulate_btn, status, hist>>

\* connect_controller: the buttons after start_reading
connect_finish ==
    /\ ui.pc = "cc_fin"
    /\ emulate_btn' = IF available THEN "normal" ELSE emulate_btn
    /\ ui' = [pc |-> "idle", op |-> "none"]
    /\ UNCHANGED <<SessionVars, SinkVars, ThreadVars, FixedVars, status, hist>>

\* stop_reading_input: the guard and self.is_reading = False
stop_reading_input_flag ==
    /\ ui.pc = "sri_check"
    /\ IF ~is_reading
         THEN /\ Goto("sxe_check")
              /\ is_reading' = is_reading
         ELSE /\ Goto("sri_set")
              /\ is_reading' = FALSE
    /\ UNCHANGED <<device, hstate, closeCalls, stop_reading, read_thread, SinkVars,
                   ThreadVars, FixedVars, emulate_btn, status, hist>>

\* stop_reading_input: self.stop_reading.set()
stop_reading_input_set ==
    /\ ui.pc = "sri_set"
    /\ stop_reading' = TRUE
    /\ Goto("sri_join")
    /\ UNCHANGED <<device, hstate, closeCalls, is_reading, read_thread, SinkVars,
                   ThreadVars, FixedVars, emulate_btn, status, hist>>

\* whether join(timeout=1.0) may return while the thread is still alive
JoinMayTimeOut == TRUE

\* stop_reading_input: read_thread.join(timeout=1.0) returns, because the thread
\* has ended or because the second has passed; nothing is checked afterwards
stop_reading_input_join ==
    /\ ui.pc = "sri_join"
    /\ (read_thread # None /\ tpc[read_thread] # "done") => JoinMayTimeOut
    /\ Goto("sxe_check")
    /\ UNCHANGED <<SessionVars, SinkVars, ThreadVars, FixedVars, emulate_btn, status, hist>>

\* where stop_xbox_emulation returns to
AfterStopEmulation == IF ui.op = "emulate" THEN "idle" ELSE "dc_close"

\* stop_xbox_emulation: the guard and self.is_emulating = False
stop_xbox_emulation_flag ==
    /\ ui.pc = "sxe_check"
    /\ IF ~is_emulating
         THEN /\ ui' = IF AfterStopEmulation = "idle"
                         THEN [pc |-> "idle", op |-> "none"]
                         ELSE [ui EXCEPT !.pc = AfterStopEmulation]
              /\ is_emulating' = is_emulating
              /\ hist' = hist
         ELSE /\ Goto("sxe_reset")
              /\ is_emulating' = FALSE
              /\ hist' = [hist EXCEPT !.resetOk = FALSE]
    /\ UNCHANGED <<SessionVars, gamepad, pad, committed, ThreadVars, FixedVars,
                   emulate_btn, status>>

\* stop_xbox_emulation: gamepad.reset(), which may raise
stop_xbox_emulation_reset ==
    /\ ui.pc = "sxe_reset"
    /\ IF gamepad = None
         THEN /\ Goto("sxe_fin")
              /\ pad' = pad
         ELSE \E ok \in BOOLEAN :
                IF ok THEN /\ pad' = NeutralPad
                           /\ Goto("sxe_update")
                      ELSE /\ pad' = pad
                           /\ Goto("sxe_none")
    /\ UNCHANGED <<SessionVars, is_emulating, gamepad, committed, ThreadVars,
                   FixedVars, emulate_btn, status, hist>>

\* stop_xbox_emulation: gamepad.update(), which may raise
stop_xbox_emulation_update ==
    /\ ui.pc = "sxe_update"
    /\ \E ok \in BOOLEAN :
         /\ committed' = IF ok THEN pad ELSE committed
         /\ hist' = [hist EXCEPT !.resetOk = ok]
    /\ Goto("sxe_none")
    /\ UNCHANGED <<SessionVars, is_emulating, gamepad, pad, ThreadVars,
                   FixedVars, emulate_btn, status>>

\* stop_xbox_emulation: self.gamepad = None
stop_xbox_emulation_release ==
    /\ ui.pc = "sxe_none"
    /\ gamepad' = None
    /\ Goto("sxe_fin")
    /\ UNCHANGED <<SessionVars, is_emulating, pad, committed, ThreadVars,
                   FixedVars, emulate_btn, status, hist>>

\* stop_xbox_emulation: the button text and the status line
stop_xbox_emulation_finish ==
    /\ ui.pc = "sxe_fin"
    /\ status' = IF is_reading THEN "Connected via HID" ELSE "Ready to connect"
    /\ ui' = IF AfterStopEmulation = "idle"
               THEN [pc |-> "idle", op |-> "none"]
               ELSE [ui EXCEPT !.pc = AfterStopEmulation]
    /\ hist' = [hist EXCEPT !.resetOk = FALSE]
    /\ UNCHANGED <<SessionVars, SinkVars, ThreadVars, FixedVars, emulate_btn>>

\* disconnect_controller: "if self.device:" and self.device.close()
disconnect_close ==
    /\ ui.pc = "dc_close"
    /\ IF device = None
         THEN /\ Goto("dc_fin")
              /\ UNCHANGED <<hstate, closeCalls>>
         ELSE /\ Goto("dc_none")
              /\ hstate' = [hstate EXCEPT ![device] =
                              IF @ = "open" THEN "closed" ELSE @]
              /\ closeCalls' = [closeCalls EXCEPT ![device] =
                                  IF hstate[device] \in {"open", "closed"}
                                    THEN @ + 1 ELSE @]
    /\ UNCHANGED <<device, is_reading, stop_reading, read_thread, SinkVars,
                   ThreadVars, FixedVars, emulate_btn, status, hist>>

\* disconnect_controller: self.device = None
disconnect_clear ==
    /\ ui.pc = "dc_none"
    /\ device' = None
    /\ Goto("dc_fin")
    /\ UNCHANGED <<hstate, closeCalls, is_reading, stop_reading, read_thread,
                   SinkVars, ThreadVars, FixedVars, emulate_btn, status, hist>>

\* disconnect_controller: buttons, status; on_closing then destroys the window
disconnect_finish ==
    /\ ui.pc = "dc_fin"
    /\ emulate_btn' = "disabled"
    /\ status' = "Disconnected"
    /\ ui' = IF ui.op = "closing"
               THEN [pc |-> "destroyed", op |-> "none"]
               ELSE [pc |-> "idle", op |-> "none"]
    /\ UNCHANGED <<SessionVars, SinkVars, ThreadVars, FixedVars, hist>>

\* on_closing: disconnect_controller, then root.destroy()
on_closing ==
    /\ ui.pc = "idle"
    /\ ui' = [pc |-> "sri_check", op |-> "closing"]
    /\ hist' = [hist EXCEPT !.connFail = "none", !.emuFail = FALSE]
    /\ UNCHANGED <<SessionVars, SinkVars, ThreadVars, FixedVars, emulate_btn, status>>

\* start_emulation, invoked by the button when it is enabled
start_emulation ==
    /\ ui.pc = "idle"
    /\ emulate_btn = "normal"
    /\ ui' = IF ~available THEN [pc |-> "idle", op |-> "none"]
             ELSE IF is_emulating THEN [pc |-> "sxe_check", op |-> "emulate"]
             ELSE [pc |-> "se_create", op |-> "emulate"]
    /\ hist' = [hist EXCEPT !.connFail = "none", !.emuFail = FALSE]
    /\ UNCHANGED <<SessionVars, SinkVars, ThreadVars, FixedVars, emulate_btn, status>>

\* a variant that sets self.is_emulating = True before the pad is created
start_emulation_flag_first ==
    /\ ui.pc = "se_create"
    /\ is_emulating' = TRUE
    /\ \E ok \in BOOLEAN :
         IF ok THEN /\ gamepad' = 1
                    /\ pad' = NeutralPad
                    /\ Goto("se_flag")
                    /\ hist' = hist
               ELSE /\ UNCHANGED <<gamepad, pad>>
                    /\ ui' = [pc |-> "idle", op |-> "none"]
                    /\ hist' = [hist EXCEPT !.emuFail = TRUE]
    /\ UNCHANGED <<SessionVars, committed, ThreadVars, FixedVars, emulate_btn, status>>

\* start_emulation: self.gamepad = vg.VX360Gamepad(), which may raise; the
\* except clause shows the error dialog and returns
start_emulation_create ==
    /\ ui.pc = "se_create"
    /\ \E ok \in BOOLEAN :
         IF ok THEN /\ gamepad' = 1
                    /\ pad' = NeutralPad
                    /\ Goto("se_flag")
                    /\ hist' = hist
               ELSE /\ UNCHANGED <<gamepad, pad>>
                    /\ ui' = [pc |-> "idle", op |-> "none"]
                    /\ hist' = [hist EXCEPT !.emuFail = TRUE]
    /\ UNCHANGED <<SessionVars, is_emulating, committed, ThreadVars, FixedVars,
                   emulate_btn, status>>

\* start_emulation: self.is_emulating = True and the status line
start_emulation_flag ==
    /\ ui.pc = "se_flag"
    /\ is_emulating' = TRUE
    /\ status' = "Xbox 360 emulation active"
    /\ ui' = [pc |-> "idle", op |-> "none"]
    /\ UNCHANGED <<SessionVars, gamepad, pad, committed, ThreadVars, FixedVars,
                   emulate_btn, hist>>

(***************************************************************************)
(* The read thread: read_hid_loop, process_controller_data and             *)
(* update_virtual_controller, one statement group at a time.               *)
(***************************************************************************)
Running == ui.pc # "destroyed"

UiVars == <<ui, emulate_btn, status>>

\* read_hid_loop leaves the loop; the finally clause is next
Leave(t, cause) ==
    /\ tpc' = [tpc EXCEPT ![t] = "finally"]
    /\ tcause' = [tcause EXCEPT ![t] = cause]

\* "while self.is_reading and not self.stop_reading.is_set()"
loop_test(t) ==
    /\ Running
    /\ tpc[t] = "loop"
    /\ IF is_reading /\ ~stop_reading
         THEN /\ tpc' = [tpc EXCEPT ![t] = "chkdev"]
              /\ tcause' = tcause
         ELSE Leave(t, "stop")
    /\ UNCHANGED <<SessionVars, SinkVars, UiVars, FixedVars, th, tdata, tcal, tpush,
                   counter, cached, hist>>

\* "if not self.device: break"
check_device(t) ==
    /\ Running
    /\ tpc[t] = "chkdev"
    /\ IF device = None
         THEN Leave(t, "nodevice")
         ELSE /\ tpc' = [tpc EXCEPT ![t] = "read"]
              /\ tcause' = tcause
    /\ UNCHANGED <<SessionVars, SinkVars, UiVars, FixedVars, th, tdata, tcal, tpush,
                   counter, cached, hist>>

\* "self.device.read(64, timeout_ms=10)" is entered: None has no read, a handle
\* that is not open raises at once, an open handle blocks for up to 10 ms
read_call(t) ==
    /\ Running
    /\ tpc[t] = "read"
    /\ IF device = None
         THEN /\ Leave(t, "attrerr")
              /\ UNCHANGED <<th, hist>>
         ELSE IF hstate[device] # "open"
           THEN /\ Leave(t, "readclosed")
                /\ th' = [th EXCEPT ![t] = device]
                /\ hist' = [hist EXCEPT !.readOnClosed =
                              @ \/ hstate[device] = "closed"]
           ELSE /\ tpc' = [tpc EXCEPT ![t] = "reading"]
                /\ tcause' = tcause
                /\ th' = [th EXCEPT ![t] = device]
                /\ hist' = hist
    /\ UNCHANGED <<SessionVars, SinkVars, UiVars, FixedVars, tdata, tcal, tpush,
                   counter, cached>>

\* how far a run follows the device: the session runs, which leave emulation
\* out, follow more reports and count consecutive timeouts
FrameLimit == IF fx.kind = "session" THEN MaxSessionFrames ELSE MaxFrames

TimeoutLimit == IF fx.kind = "session" THEN MaxTimeouts ELSE 0

\* a variant without the "if data:" test: an empty read is handed to
\* process_controller_data
AfterTimeoutProcessed == "pcd"

\* "if data:" is false for an empty read: nothing is processed and the loop
\* goes on to its sleep and its next test
AfterTimeout == "loop"

\* device.read returns a report (empty on timeout).  A handle closed while the
\* call was in flight may return anything or raise.
read_return(t) ==
    /\ Running
    /\ tpc[t] = "reading"
    /\ \E data \in Reports :
         /\ Len(data) >= MinReport => hist.frames < FrameLimit
         /\ tdata' = [tdata EXCEPT ![t] = data]
         /\ tpc' = [tpc EXCEPT ![t] = IF data = <<>> THEN AfterTimeout ELSE "pcd"]
         /\ hist' = [hist EXCEPT !.frames =
                       IF Len(data) >= MinReport THEN @ + 1 ELSE @]
         /\ tpush' = [tpush EXCEPT ![t].timeouts =
                        IF data = <<>> THEN Min2(@ + 1, TimeoutLimit) ELSE 0]
    /\ UNCHANGED <<SessionVars, SinkVars, UiVars, FixedVars, th, tcal, tcause,
                   counter, cached>>

\* device.read raises: the inner except clause breaks out of the loop
read_error(t) ==
    /\ Running
    /\ tpc[t] = "reading"
    /\ Leave(t, "readerr")
    /\ UNCHANGED <<SessionVars, SinkVars, UiVars, FixedVars, th, tdata, tcal, tpush,
                   counter, cached, hist>>

\* a variant in which a short report falls through to the frame counter
AfterShortReportCounts == "throttle"

\* "if len(data) < 15: return": back to read_hid_loop, which loops
AfterShortReport == "loop"

\* a variant of process_controller_data with the frame counter and the posts
\* moved in front of the emulation block
process_controller_data_counts_first(t) ==
    /\ Running
    /\ tpc[t] = "pcd"
    /\ tpc' = [tpc EXCEPT ![t] =
                 IF Len(tdata[t]) < MinReport THEN AfterShortReport
                 ELSE IF is_emulating /\ gamepad # None THEN "uvc_chk"
                 ELSE "loop"]
    /\ tdata' = [tdata EXCEPT ![t] = IF Len(@) < MinReport THEN <<>> ELSE @]
    /\ tpush' = [tpush EXCEPT ![t].dropped = @ \/ Len(tdata[t]) < MinReport]
    /\ counter' = IF Len(tdata[t]) < MinReport THEN counter
                  ELSE IF counter = -1 THEN 0 ELSE counter + 1
    /\ hist' = [hist EXCEPT !.posts = IF counter' # counter /\ counter' % UiEvery = 0
                                        THEN @ + 1 ELSE @]
    /\ UNCHANGED <<SessionVars, SinkVars, UiVars, FixedVars, th, tcal, tcause,
                   cached>>

\* process_controller_data up to the emulation test
process_controller_data(t) ==
    /\ Running
    /\ tpc[t] = "pcd"
    /\ tpc' = [tpc EXCEPT ![t] =
                 IF Len(tdata[t]) < MinReport THEN AfterShortReport
                 ELSE IF is_emulating /\ gamepad # None THEN "uvc_chk"
                 ELSE "throttle"]
    /\ tdata' = [tdata EXCEPT ![t] = IF Len(@) < MinReport THEN <<>> ELSE @]
    /\ tpush' = [tpush EXCEPT ![t].dropped = @ \/ Len(tdata[t]) < MinReport]
    /\ UNCHANGED <<SessionVars, SinkVars, UiVars, FixedVars, th, tcal, tcause,
                   counter, cached, hist>>

\* update_virtual_controller: "if not self.gamepad: return"
uvc_check(t) ==
    /\ Running
    /\ tpc[t] = "uvc_chk"
    /\ IF gamepad = None
         THEN /\ tpc' = [tpc EXCEPT ![t] = "throttle"]
              /\ tpush' = tpush
              /\ hist' = hist
         ELSE /\ tpc' = [tpc EXCEPT ![t] = "uvc_sticks"]
              /\ tpush' = [tpush EXCEPT ![t].present = TRUE]
              /\ hist' = [hist EXCEPT !.pushes = @ + 1]
    /\ UNCHANGED <<SessionVars, SinkVars, UiVars, FixedVars, th, tdata, tcal, tcause,
                   counter, cached>>

\* a variant in which the exception leaves update_virtual_controller and
\* reaches the except clause of read_hid_loop, which breaks out of the loop
AfterPushErrorPropagates == "finally"

\* where the read thread continues when something raised inside
\* update_virtual_controller: "except Exception" prints and the call returns
AfterPushError == "throttle"

\* the except clause of update_virtual_controller
PushRaises(t) ==
    /\ tpc' = [tpc EXCEPT ![t] = AfterPushError]
    /\ tcause' = [tcause EXCEPT ![t] =
                    IF AfterPushError = "finally" THEN "pusherr" ELSE @]
    /\ tpush' = [tpush EXCEPT ![t].err = TRUE, ![t].erred = TRUE]
    /\ hist' = [hist EXCEPT !.pushErrs = @ + 1]

PushGoes(t, pc) ==
    /\ tpc' = [tpc EXCEPT ![t] = pc]
    /\ UNCHANGED <<tcause, tpush, hist>>

\* update_virtual_controller: left_joystick, right_joystick
uvc_sticks(t) ==
    /\ Running
    /\ tpc[t] = "uvc_sticks"
    /\ \E ok \in BOOLEAN :
         IF ok /\ gamepad # None
           THEN /\ pad' = PadSticks(pad, Decode(tdata[t]))
                /\ PushGoes(t, "uvc_cal")
           ELSE /\ pad' = pad
                /\ PushRaises(t)
    /\ UNCHANGED <<SessionVars, is_emulating, gamepad, committed, UiVars, FixedVars,
                   th, tdata, tcal, counter, cached>>

\* the profile calibrate_trigger_fast reads: self._cached_calibration
uvc_profile == IF cached = <<>> THEN calibration ELSE cached

\* update_virtual_controller: the cached profile is created on first use and
\* both triggers are calibrated; a profile value that is no number raises
uvc_calibrate(t) ==
    /\ Running
    /\ tpc[t] = "uvc_cal"
    /\ cached' = uvc_profile
    /\ \E ok \in BOOLEAN :
         IF ok
           THEN /\ tcal' = [tcal EXCEPT ![t] =
                     << calibrate_trigger_fast(Decode(tdata[t]).lt, "left", uvc_profile),
                        calibrate_trigger_fast(Decode(tdata[t]).rt, "right", uvc_profile) >>]
                /\ PushGoes(t, "uvc_btn")
           ELSE /\ tcal' = tcal
                /\ PushRaises(t)
    /\ UNCHANGED <<SessionVars, SinkVars, UiVars, FixedVars, th, tdata, counter>>

\* update_virtual_controller: the press_button / release_button loop
uvc_buttons(t) ==
    /\ Running
    /\ tpc[t] = "uvc_btn"
    /\ \E ok \in BOOLEAN :
         IF ok /\ gamepad # None
           THEN /\ pad' = PadButtons(pad, Decode(tdata[t]))
                /\ PushGoes(t, "uvc_trig")
           ELSE /\ pad' = pad
                /\ PushRaises(t)
    /\ UNCHANGED <<SessionVars, is_emulating, gamepad, committed, UiVars, FixedVars,
                   th, tdata, tcal, counter, cached>>

\* update_virtual_controller: left_trigger, right_trigger
uvc_triggers(t) ==
    /\ Running
    /\ tpc[t] = "uvc_trig"
    /\ \E ok \in BOOLEAN :
         IF ok /\ gamepad # None
           THEN /\ pad' = PadTriggers(pad, Decode(tdata[t]), tcal[t][1], tcal[t][2])
                /\ PushGoes(t, "uvc_commit")
           ELSE /\ pad' = pad
                /\ PushRaises(t)
    /\ UNCHANGED <<SessionVars, is_emulating, gamepad, committed, UiVars, FixedVars,
                   th, tdata, tcal, counter, cached>>

\* a variant with the gamepad.update() line doubled
CommitsTwice == 1 + 1

\* gamepad.update() calls one update_virtual_controller call makes when
\* nothing raises
CommitsPerPush == 1

\* update_virtual_controller: gamepad.update()
uvc_commit(t) ==
    /\ Running
    /\ tpc[t] = "uvc_commit"
    /\ \E ok \in BOOLEAN :
         IF ok /\ gamepad # None
           THEN /\ committed' = pad
                /\ tpc' = [tpc EXCEPT ![t] = "throttle"]
                /\ tpush' = [tpush EXCEPT ![t].commits = @ + CommitsPerPush]
                /\ hist' = [hist EXCEPT !.commits = @ + CommitsPerPush,
                                        !.recovered = @ \/ tpush[t].erred]
                /\ tcause' = tcause
           ELSE /\ committed' = committed
                /\ PushRaises(t)
    /\ UNCHANGED <<SessionVars, is_emulating, gamepad, pad, UiVars, FixedVars,
                   th, tdata, tcal, counter, cached>>

\* the record of the last UiEvery frames counted: was the frame posted
Sampled(w, posted) ==
    LET a == Append(w, posted)
    IN IF Len(a) > UiEvery THEN Tail(a) ELSE a

\* process_controller_data: the frame counter and the posts to the Tk thread
throttle(t) ==
    /\ Running
    /\ tpc[t] = "throttle"
    /\ counter' = IF counter = -1 THEN 0 ELSE counter + 1
    /\ hist' = [hist EXCEPT !.posts = IF counter' % UiEvery = 0 THEN @ + 1 ELSE @,
                            !.window = Sampled(@, counter' % UiEvery = 0)]
    /\ tpc' = [tpc EXCEPT ![t] = "loop"]
    /\ tpush' = [tpush EXCEPT ![t] = [NoPush EXCEPT !.erred = tpush[t].erred,
                                                    !.dropped = tpush[t].dropped]]
    /\ tdata' = [tdata EXCEPT ![t] = <<>>]
    /\ tcal' = [tcal EXCEPT ![t] = <<0, 0>>]
    /\ UNCHANGED <<SessionVars, SinkVars, UiVars, FixedVars, th, tcause, cached>>

\* The same three statements one at a time, as they run when two read threads
\* are alive.  "if hasattr(self, '_ui_update_counter')": the first frame sets
\* the counter to 0; otherwise "+= 1" begins by loading the counter
throttle_load(t) ==
    /\ Running
    /\ tpc[t] = "throttle"
    /\ IF counter = -1
         THEN /\ counter' = 0
              /\ tpc' = [tpc EXCEPT ![t] = "thr_post"]
              /\ tpush' = tpush
         ELSE /\ counter' = counter
              /\ tpc' = [tpc EXCEPT ![t] = "thr_store"]
              /\ tpush' = [tpush EXCEPT ![t].loaded = counter]
    /\ UNCHANGED <<SessionVars, SinkVars, UiVars, FixedVars, th, tdata, tcal,
                   tcause, cached, hist>>

\* "self._ui_update_counter += 1": the sum is stored
throttle_store(t) ==
    /\ Running
    /\ tpc[t] = "thr_store"
    /\ counter' = tpush[t].loaded + 1
    /\ tpc' = [tpc EXCEPT ![t] = "thr_post"]
    /\ tpush' = [tpush EXCEPT ![t].loaded = 0]
    /\ UNCHANGED <<SessionVars, SinkVars, UiVars, FixedVars, th, tdata, tcal,
                   tcause, cached, hist>>

\* "if self._ui_update_counter % 3 == 0:" and the posts to the Tk thread
throttle_post(t) ==
    /\ Running
    /\ tpc[t] = "thr_post"
    /\ hist' = [hist EXCEPT !.posts = IF counter % UiEvery = 0 THEN @ + 1 ELSE @,
                            !.window = Sampled(@, counter % UiEvery = 0)]
    /\ tpc' = [tpc EXCEPT ![t] = "loop"]
    /\ tpush' = [tpush EXCEPT ![t] = [NoPush EXCEPT !.erred = tpush[t].erred,
                                                    !.dropped = tpush[t].dropped]]
    /\ tdata' = [tdata EXCEPT ![t] = <<>>]
    /\ tcal' = [tcal EXCEPT ![t] = <<0, 0>>]
    /\ UNCHANGED <<SessionVars, SinkVars, UiVars, FixedVars, th, tcause, counter,
                   cached>>

\* read_hid_loop: "finally: self.is_reading = False"
loop_finally(t) ==
    /\ Running
    /\ tpc[t] = "finally"
    /\ is_reading' = FALSE
    /\ tpc' = [tpc EXCEPT ![t] = "done"]
    /\ UNCHANGED <<device, hstate, closeCalls, stop_reading, read_thread, SinkVars,
                   UiVars, FixedVars, th, tdata, tcal, tcause, tpush, counter,
                   cached, hist>>

UiStep ==
    \/ connect_controller
    \/ initialize_via_usb
    \/ init_hid_device_new
    \/ init_hid_device_open
    \/ start_reading_flag
    \/ start_reading_clear
    \/ start_reading_thread
    \/ connect_finish
    \/ stop_reading_input_flag
    \/ stop_reading_input_set
    \/ stop_reading_input_join
    \/ stop_xbox_emulation_flag
    \/ stop_xbox_emulation_reset
    \/ stop_xbox_emulation_update
    \/ stop_xbox_emulation_release
    \/ stop_xbox_emulation_finish
    \/ disconnect_close
    \/ disconnect_clear
    \/ disconnect_finish
    \/ on_closing
    \/ start_emulation
    \/ start_emulation_create
    \/ start_emulation_flag

ThreadStep(t) ==
    \/ loop_test(t)
    \/ check_device(t)
    \/ read_call(t)
    \/ read_return(t)
    \/ read_error(t)
    \/ process_controller_data(t)
    \/ uvc_check(t)
    \/ uvc_sticks(t)
    \/ uvc_calibrate(t)
    \/ uvc_buttons(t)
    \/ uvc_triggers(t)
    \/ uvc_commit(t)
    \/ throttle(t)
    \/ loop_finally(t)

Next == UiStep \/ \E t \in Threads : ThreadStep(t)

Spec == Init /\ [][Next]_vars

(***************************************************************************)
(* The device session on its own: the connect, disconnect and close        *)
(* handlers and the read threads on a host without the emulation provider, *)
(* with room for one read thread more than Spec has, so that a connect can *)
(* follow a disconnect whose join gave up on a thread that is still alive. *)
(***************************************************************************)
ReadThreads == 1..(MaxThreads + 1)

ReadInit(kind, vgamepad) ==
    /\ SessionInit!1 /\ SessionInit!2 /\ SessionInit!3 /\ SessionInit!4
    /\ SessionInit!5 /\ SessionInit!6
    /\ is_emulating = FALSE
    /\ gamepad = None
    /\ pad = NeutralPad
    /\ committed = NeutralPad
    /\ emulate_btn = "disabled"
    /\ status = "Ready to connect"
    /\ ui = [pc |-> "idle", op |-> "none"]
    /\ tpc = [t \in ReadThreads |-> "unborn"]
    /\ th = [t \in ReadThreads |-> None]
    /\ tdata = [t \in ReadThreads |-> <<>>]
    /\ tcal = [t \in ReadThreads |-> <<0, 0>>]
    /\ tcause = [t \in ReadThreads |-> "none"]
    /\ tpush = [t \in ReadThreads |-> NoPush]
    /\ counter = -1
    /\ cached = <<>>
    /\ calibration = DefaultCalibration
    /\ hist = NoHist
    /\ available = vgamepad
    /\ fx = [kind |-> kind]

InitRead == ReadInit("session", FALSE)

UiStepRead ==
    \/ connect_controller
    \/ initialize_via_usb
    \/ init_hid_device_new
    \/ init_hid_device_open
    \/ start_reading_flag
    \/ start_reading_clear
    \/ start_reading_thread
    \/ connect_finish
    \/ stop_reading_input_flag
    \/ stop_reading_input_set
    \/ stop_reading_input_join
    \/ stop_xbox_emulation_flag
    \/ disconnect_close
    \/ disconnect_clear
    \/ disconnect_finish
    \/ on_closing

ThreadStepRead(t) ==
    \/ loop_test(t)
    \/ check_device(t)
    \/ read_call(t)
    \/ read_return(t)
    \/ read_error(t)
    \/ process_controller_data(t)
    \/ throttle_load(t)
    \/ throttle_store(t)
    \/ throttle_post(t)
    \/ loop_finally(t)

NextRead == UiStepRead \/ \E t \in ReadThreads : ThreadStepRead(t)

SpecRead == InitRead /\ [][NextRead]_vars

\* The same handlers and threads with scheduling stated: a read thread that
\* can take a step is given one sooner or later (its read returns within
\* timeout_ms, its sleep ends); the user is never obliged to click.
InitStop == ReadInit("stop", FALSE)

SpecStop ==
    /\ InitStop
    /\ [][NextRead]_vars
    /\ \A t \in ReadThreads : WF_vars(ThreadStepRead(t))

\* The whole program with a second thread slot, so that emulation can run
\* while a read thread that outlived its session is still alive.
InitWhole == ReadInit("overlap", TRUE)

NextWhole == UiStep \/ \E t \in ReadThreads : ThreadStep(t)

SpecWhole == InitWhole /\ [][NextWhole]_vars

\* The state SpecWhole is in after Connect, Disconnect with a join that timed
\* out, Connect and Start Emulation, every handler having returned: the first
\* session's thread and the second session's thread are both at the loop
\* test, the first handle is closed and the second is open.
OverlapStart ==
    /\ device = 2
    /\ hstate = [h \in Handles |-> IF h = 1 THEN "closed"
                                   ELSE IF h = 2 THEN "open" ELSE "free"]
    /\ closeCalls = [h \in Handles |-> IF h = 1 THEN 1 ELSE 0]
    /\ is_reading = TRUE
    /\ stop_reading = FALSE
    /\ read_thread = 2
    /\ is_emulating = TRUE
    /\ gamepad = 1
    /\ pad = NeutralPad
    /\ committed = NeutralPad
    /\ emulate_btn = "normal"
    /\ status = "Xbox 360 emulation active"
    /\ ui = [pc |-> "idle", op |-> "none"]
    /\ tpc = [t \in ReadThreads |-> IF t <= 2 THEN "loop" ELSE "unborn"]
    /\ th = [t \in ReadThreads |-> None]
    /\ tdata = [t \in ReadThreads |-> <<>>]
    /\ tcal = [t \in ReadThreads |-> <<0, 0>>]
    /\ tcause = [t \in ReadThreads |-> "none"]
    /\ tpush = [t \in ReadThreads |-> NoPush]
    /\ counter = -1
    /\ cached = <<>>
    /\ calibration = DefaultCalibration
    /\ hist = NoHist
    /\ available = TRUE
    /\ fx = [kind |-> "overlap"]

\* The two read threads from there on, the user doing nothing more.
InitOverlap == OverlapStart

NextOverlap == \E t \in ReadThreads : ThreadStep(t)

SpecOverlap == InitOverlap /\ [][NextOverlap]_vars

(***************************************************************************)
(* Calibration on its own: every raw byte against sampled breakpoints.     *)
(***************************************************************************)
BreakVals == {32, 190, 230} \cup { i * BreakStep : i \in 0..MaxBreak }

ProfileOf(lb, lu, lm, rb, ru, rm, bump100) ==
    [ left_base |-> lb, left_bump |-> lu, left_max |-> lm,
      right_base |-> rb, right_bump |-> ru, right_max |-> rm,
      bump_100_percent |-> bump100, emulation_mode |-> "xbox360" ]

\* the profile holding the sampled breakpoints on the side under test
CalProfile(c) ==
    IF c.side = "left"
      THEN ProfileOf(c.base, c.bump, c.max_val, 32, 190, 230, c.bump100)
      ELSE ProfileOf(32, 190, 230, c.base, c.bump, c.max_val, c.bump100)

InitCal ==
    /\ SessionInit
    /\ available = TRUE
    /\ fx \in [ kind : {"cal"}, stage : {"in"}, raw : 0..FullScale,
                base : BreakVals, bump : BreakVals, max_val : BreakVals,
                bump100 : BOOLEAN, side : {"left", "right"},
                fast : {-1}, slow : {-1}, divs : {0} ]

\* both calibration functions are applied to the arguments drawn by InitCal
calibrate ==
    /\ fx.kind = "cal"
    /\ fx.stage = "in"
    /\ fx' = [fx EXCEPT !.stage = "out",
                        !.fast = calibrate_trigger_fast(fx.raw, fx.side, CalProfile(fx)),
                        !.slow = calibrate_trigger(fx.raw, fx.side, CalProfile(fx)),
                        !.divs = CalDivisions(fx.base, fx.bump, fx.max_val, fx.bump100)]
    /\ UNCHANGED <<SessionVars, SinkVars, UiVars, ThreadVars, available, calibration, hist>>

NextCal == calibrate

SpecCal == InitCal /\ [][NextCal]_vars

(***************************************************************************)
(* One update_virtual_controller call on its own: a frame decoded from a   *)
(* report is pushed to an active pad under a sampled profile.              *)
(***************************************************************************)
TrigSamples == {0, 110, FullScale}
PushTriples == { <<32, 190, 230>>, <<0, 95, 190>>, <<190, 32, 230>> }
PushReports == { MkReport(b3, b4, b5, lt, rt) :
                   b3 \in {0, 2, 16}, b4 \in {0, 8, 16}, b5 \in {0, 2, 16, 18},
                   lt \in TrigSamples, rt \in TrigSamples }
PushProfiles == { ProfileOf(l[1], l[2], l[3], r[1], r[2], r[3], m) :
                    l \in PushTriples, r \in PushTriples, m \in BOOLEAN }
DirtyPad == [ lx |-> 100, ly |-> -100, rx |-> 7, ry |-> 0,
              pressed |-> {"XUSB_GAMEPAD_BACK", "XUSB_GAMEPAD_A"},
              lt |-> 9, rt |-> 200 ]

InitPush ==
    /\ SessionInit!1 /\ SessionInit!2 /\ SessionInit!3 /\ SessionInit!4
    /\ SessionInit!5 /\ SessionInit!6
    /\ is_emulating = TRUE
    /\ gamepad = 1
    /\ pad \in {NeutralPad, DirtyPad}
    /\ committed = pad
    /\ emulate_btn = "normal"
    /\ status = "Xbox 360 emulation active"
    /\ ui = [pc |-> "idle", op |-> "none"]
    /\ tpc = [t \in Threads |-> "unborn"]
    /\ th = [t \in Threads |-> None]
    /\ tdata = [t \in Threads |-> <<>>]
    /\ tcal = [t \in Threads |-> <<0, 0>>]
    /\ tcause = [t \in Threads |-> "none"]
    /\ tpush = [t \in Threads |-> NoPush]
    /\ counter = -1
    /\ calibration \in PushProfiles
    /\ cached \in {<<>>, calibration}
    /\ hist = NoHist
    /\ available = TRUE
    /\ fx \in [ kind : {"push"}, stage : {"in"}, data : PushReports ]

\* update_virtual_controller from its first statement to gamepad.update()
push_frame ==
    /\ fx.kind = "push"
    /\ fx.stage = "in"
    /\ gamepad # None
    /\ pad' = PushPad(pad, Decode(fx.data), uvc_profile)
    /\ committed' = pad'
    /\ cached' = uvc_profile
    /\ fx' = [fx EXCEPT !.stage = "out"]
    /\ UNCHANGED <<SessionVars, is_emulating, gamepad, UiVars, tpc, th, tdata, tcal,
                   tcause, tpush, counter, available, calibration, hist>>

NextPush == push_frame

SpecPush == InitPush /\ [][NextPush]_vars

(***************************************************************************)
(* Settings: load_settings and setup_ui as __init__ runs them on a         *)
(* settings file, then save_settings.  A dict is a function from keys to   *)
(* values; json.dump and json.load carry numbers, booleans and strings of  *)
(* a dict through unchanged.                                               *)
(***************************************************************************)
KnownFields == DOMAIN DefaultCalibration

NumericFields == << "left_base", "left_bump", "left_max",
                    "right_base", "right_bump", "right_max" >>

\* d.update(other)
DictUpdate(d, other) ==
    [ k \in DOMAIN d \cup DOMAIN other |->
        IF k \in DOMAIN other THEN other[k] ELSE d[k] ]

\* str(number), the text a StringVar is created with, and the text float()
\* accepts or refuses
Str(v) == [num |-> TRUE, val |-> v]
FloatRaises(text) == ~text.num
Float(text) == text.val

\* the assignments of update_calibration_from_ui from the i-th numeric field
\* on: a ValueError leaves the function with the fields assigned so far
RECURSIVE AssignFromUi(_, _, _)
AssignFromUi(cal, uivars, i) ==
    IF i > Len(NumericFields)
      THEN [ cal |-> [cal EXCEPT !["bump_100_percent"] = uivars.bump_100_percent,
                                 !["emulation_mode"] = uivars.emulation_mode],
             ok |-> TRUE ]
      ELSE IF FloatRaises(uivars[NumericFields[i]])
        THEN [cal |-> cal, ok |-> FALSE]
        ELSE AssignFromUi([cal EXCEPT ![NumericFields[i]] =
                                          Float(uivars[NumericFields[i]])],
                          uivars, i + 1)

\* update_calibration_from_ui: the profile and whether the cache was refreshed
update_calibration_from_ui(cal, uivars) == AssignFromUi(cal, uivars, 1)

\* the variables setup_ui creates from the profile
UiVarsOf(cal) ==
    [ left_base |-> Str(cal.left_base), left_bump |-> Str(cal.left_bump),
      left_max |-> Str(cal.left_max), right_base |-> Str(cal.right_base),
      right_bump |-> Str(cal.right_bump), right_max |-> Str(cal.right_max),
      bump_100_percent |-> cal.bump_100_percent,
      emulation_mode |-> cal.emulation_mode ]

\* settings files: none, one that is not JSON, and dicts holding some known
\* fields and some keys the program does not know
FileSample == [ left_base |-> 40, right_max |-> 200, bump_100_percent |-> FALSE,
                profile_name |-> "melee", version |-> 2 ]
NoDict == [k \in {} |-> 0]

\* elements of a JSON array: a two-element list, which dict.update takes as
\* a key and a value, or a scalar, on which it raises
PairItem(k, v) == [pair |-> TRUE, key |-> k, val |-> v]
ScalarItem == [pair |-> FALSE, key |-> "", val |-> 0]

\* JSON arrays: documents that parse but are no object
ArraySamples ==
    { << ScalarItem >>,
      << PairItem("left_base", 99) >>,
      << PairItem("left_base", 99), ScalarItem >> }

SettingsFiles ==
    { [state |-> "absent", dict |-> NoDict, items |-> <<>>],
      [state |-> "malformed", dict |-> NoDict, items |-> <<>>] }
    \cup { [state |-> "dict", dict |-> [k \in K |-> FileSample[k]], items |-> <<>>] :
             K \in SUBSET DOMAIN FileSample }
    \cup { [state |-> "array", dict |-> NoDict, items |-> a] : a \in ArraySamples }

\* d.update(items) for a list: the elements are taken one by one, each pair
\* is stored at once, and the first element that is no pair raises
RECURSIVE DictUpdateSeq(_, _, _)
DictUpdateSeq(d, items, i) ==
    IF i > Len(items) \/ ~items[i].pair
      THEN d
      ELSE DictUpdateSeq(
             [ k \in DOMAIN d \cup {items[i].key} |->
                 IF k = items[i].key THEN items[i].val ELSE d[k] ],
             items, i + 1)

\* a variant of the document written by a save: the six numbers only
SavedNumericOnly(cal) ==
    [ k \in { NumericFields[i] : i \in 1..Len(NumericFields) } |-> cal[k] ]

\* the document json.dump(self.calibration, f) writes
SavedDocument(cal) == cal

\* texts typed into an entry of the calibration form
BadText == [num |-> FALSE, val |-> 0]
EntryTexts == { Str(v) : v \in {0, 32, 100} } \cup {BadText}

InitSettings ==
    /\ SessionInit
    /\ available = TRUE
    /\ fx \in [ kind : {"settings"}, stage : {"boot"}, file : SettingsFiles,
                uivars : {NoDict}, edits : {0}, round : {FALSE},
                saved : {NoDict} ]

\* load_settings: the file's dict is merged into the profile; a missing file
\* is skipped and a file that does not parse is reported and skipped
load_settings ==
    /\ fx.kind = "settings"
    /\ fx.stage = "boot"
    /\ calibration' = IF fx.file.state = "dict"
                        THEN DictUpdate(calibration, fx.file.dict)
                      ELSE IF fx.file.state = "array"
                        THEN DictUpdateSeq(calibration, fx.file.items, 1)
                        ELSE calibration
    /\ fx' = [fx EXCEPT !.stage = "loaded"]
    /\ UNCHANGED <<SessionVars, SinkVars, UiVars, ThreadVars, available, hist>>

\* setup_ui: the calibration entries and mode buttons
setup_ui ==
    /\ fx.kind = "settings"
    /\ fx.stage = "loaded"
    /\ fx' = [fx EXCEPT !.stage = "ready", !.uivars = UiVarsOf(calibration)]
    /\ UNCHANGED <<SessionVars, SinkVars, UiVars, ThreadVars, available,
                   calibration, hist>>

\* the user types into one of the six entries
edit_entry ==
    /\ fx.kind = "settings"
    /\ fx.stage = "ready"
    /\ fx.edits < MaxEdits
    /\ \E i \in 1..Len(NumericFields), text \in EntryTexts :
         fx' = [fx EXCEPT !.uivars[NumericFields[i]] = text, !.edits = @ + 1]
    /\ UNCHANGED <<SessionVars, SinkVars, UiVars, ThreadVars, available,
                   calibration, hist>>

\* the user picks a trigger mode
set_trigger_mode ==
    /\ fx.kind = "settings"
    /\ fx.stage = "ready"
    /\ fx.edits < MaxEdits
    /\ \E b \in BOOLEAN :
         fx' = [fx EXCEPT !.uivars.bump_100_percent = b, !.edits = @ + 1]
    /\ UNCHANGED <<SessionVars, SinkVars, UiVars, ThreadVars, available,
                   calibration, hist>>

\* save_settings: update_calibration_from_ui, then json.dump(self.calibration)
\* into the file, which may fail to open
save_settings ==
    /\ fx.kind = "settings"
    /\ fx.stage = "ready"
    /\ LET upd == update_calibration_from_ui(calibration, fx.uivars)
       IN /\ calibration' = upd.cal
          /\ cached' = IF upd.ok THEN upd.cal ELSE cached
          /\ \E ok \in BOOLEAN :
               fx' = [fx EXCEPT !.stage = IF ok THEN "saved" ELSE "unsaved",
                                !.saved = IF ok THEN upd.cal ELSE @,
                                !.file = IF ok THEN [state |-> "dict",
                                                     dict |-> SavedDocument(upd.cal),
                                                     items |-> <<>>]
                                         ELSE @]
    /\ UNCHANGED <<SessionVars, SinkVars, UiVars, tpc, th, tdata, tcal, tcause,
                   tpush, counter, available, hist>>

\* the program is started again after a save: __init__ sets the defaults and
\* load_settings runs on the file the save has written
restart ==
    /\ fx.kind = "settings"
    /\ fx.stage = "saved"
    /\ ~fx.round
    /\ calibration' = DefaultCalibration
    /\ cached' = <<>>
    /\ fx' = [fx EXCEPT !.stage = "boot", !.uivars = NoDict, !.round = TRUE]
    /\ UNCHANGED <<SessionVars, SinkVars, UiVars, tpc, th, tdata, tcal, tcause,
                   tpush, counter, available, hist>>

NextSettings ==
    \/ load_settings
    \/ setup_ui
    \/ edit_entry
    \/ set_trigger_mode
    \/ save_settings
    \/ restart

SpecSettings == InitSettings /\ [][NextSettings]_vars

(***************************************************************************)
(* The profile under a save: update_calibration_from_ui assigning the      *)
(* fields of self.calibration one at a time on the Tk thread, beside a     *)
(* read thread that creates the cached profile on its first push and reads *)
(* it field by field in calibrate_trigger_fast.                            *)
(***************************************************************************)
CommitFields == NumericFields \o << "bump_100_percent", "emulation_mode" >>

\* the entries as the user has left them before pressing Save
FormSamples ==
    { [UiVarsOf(DefaultCalibration) EXCEPT !.left_base = a, !.left_bump = b,
                                           !.bump_100_percent = m] :
        a \in {Str(32), Str(100)}, b \in {Str(190), Str(150), BadText},
        m \in BOOLEAN }

NoneRead == [base |-> 0, bump |-> 0, max |-> 0, mode |-> FALSE]

\* seen: the profiles that have been in effect as a whole, the one present
\* after construction and each one a completed update has put in the cache
InitCommit ==
    /\ SessionInit
    /\ available = TRUE
    /\ fx \in [ kind : {"commit"}, uivars : FormSamples, upc : {0},
                seen : {{DefaultCalibration}}, rpc : {"idle"}, side : {"left"},
                raw : {0}, used : {NoneRead} ]

\* the Save button: save_settings calls update_calibration_from_ui
save_settings_begin ==
    /\ fx.kind = "commit"
    /\ fx.upc = 0
    /\ fx' = [fx EXCEPT !.upc = 1]
    /\ UNCHANGED <<SessionVars, SinkVars, UiVars, ThreadVars, available,
                   calibration, hist>>

\* update_calibration_from_ui: one assignment to self.calibration; float()
\* raising ValueError ends the function with the fields assigned so far
update_calibration_from_ui_field ==
    /\ fx.kind = "commit"
    /\ fx.upc \in 1..Len(CommitFields)
    /\ LET f == CommitFields[fx.upc]
           numeric == fx.upc <= Len(NumericFields)
       IN IF numeric /\ FloatRaises(fx.uivars[f])
            THEN /\ calibration' = calibration
                 /\ fx' = [fx EXCEPT !.upc = 0]
            ELSE /\ calibration' =
                      [calibration EXCEPT ![f] = IF numeric THEN Float(fx.uivars[f])
                                                 ELSE fx.uivars[f]]
                 /\ fx' = [fx EXCEPT !.upc = @ + 1]
    /\ UNCHANGED <<SessionVars, SinkVars, UiVars, ThreadVars, available, hist>>

\* update_calibration_from_ui: self._cached_calibration = self.calibration.copy()
update_calibration_from_ui_cache ==
    /\ fx.kind = "commit"
    /\ fx.upc = Len(CommitFields) + 1
    /\ cached' = calibration
    /\ fx' = [fx EXCEPT !.upc = 0, !.seen = @ \cup {calibration}]
    /\ UNCHANGED <<SessionVars, SinkVars, UiVars, tpc, th, tdata, tcal, tcause,
                   tpush, counter, available, calibration, hist>>

\* update_virtual_controller: the cached profile is created when the
\* attribute does not exist yet; the left trigger is calibrated first
push_cache ==
    /\ fx.kind = "commit"
    /\ fx.rpc = "idle"
    /\ cached' = uvc_profile
    /\ \E raw \in {120, 200} :
         fx' = [fx EXCEPT !.rpc = "base", !.side = "left", !.raw = raw,
                          !.used = NoneRead]
    /\ UNCHANGED <<SessionVars, SinkVars, UiVars, tpc, th, tdata, tcal, tcause,
                   tpush, counter, available, calibration, hist>>

\* calibrate_trigger_fast: base = self._cached_calibration[f'{side}_base']
calibrate_trigger_fast_base ==
    /\ fx.kind = "commit"
    /\ fx.rpc = "base"
    /\ fx' = [fx EXCEPT !.rpc = "bump",
                        !.used.base = IF fx.side = "left" THEN cached.left_base
                                      ELSE cached.right_base]
    /\ UNCHANGED <<SessionVars, SinkVars, UiVars, ThreadVars, available,
                   calibration, hist>>

\* calibrate_trigger_fast: bump = self._cached_calibration[f'{side}_bump']
calibrate_trigger_fast_bump ==
    /\ fx.kind = "commit"
    /\ fx.rpc = "bump"
    /\ fx' = [fx EXCEPT !.rpc = "max",
                        !.used.bump = IF fx.side = "left" THEN cached.left_bump
                                      ELSE cached.right_bump]
    /\ UNCHANGED <<SessionVars, SinkVars, UiVars, ThreadVars, available,
                   calibration, hist>>

\* calibrate_trigger_fast: max_val = self._cached_calibration[f'{side}_max']
calibrate_trigger_fast_max ==
    /\ fx.kind = "commit"
    /\ fx.rpc = "max"
    /\ fx' = [fx EXCEPT !.rpc = "mode",
                        !.used.max = IF fx.side = "left" THEN cached.left_max
                                     ELSE cached.right_max]
    /\ UNCHANGED <<SessionVars, SinkVars, UiVars, ThreadVars, available,
                   calibration, hist>>

\* calibrate_trigger_fast: if self._cached_calibration['bump_100_percent']
calibrate_trigger_fast_mode ==
    /\ fx.kind = "commit"
    /\ fx.rpc = "mode"
    /\ fx' = [fx EXCEPT !.rpc = "ret", !.used.mode = cached.bump_100_percent]
    /\ UNCHANGED <<SessionVars, SinkVars, UiVars, ThreadVars, available,
                   calibration, hist>>

\* calibrate_trigger_fast returns; the right trigger follows the left one
calibrate_trigger_fast_return ==
    /\ fx.kind = "commit"
    /\ fx.rpc = "ret"
    /\ fx' = IF fx.side = "left"
               THEN [fx EXCEPT !.rpc = "base", !.side = "right", !.used = NoneRead]
               ELSE [fx EXCEPT !.rpc = "idle", !.side = "left", !.used = NoneRead]
    /\ UNCHANGED <<SessionVars, SinkVars, UiVars, ThreadVars, available,
                   calibration, hist>>

NextCommit ==
    \/ save_settings_begin
    \/ update_calibration_from_ui_field
    \/ update_calibration_from_ui_cache
    \/ push_cache
    \/ calibrate_trigger_fast_base
    \/ calibrate_trigger_fast_bump
    \/ calibrate_trigger_fast_max
    \/ calibrate_trigger_fast_mode
    \/ calibrate_trigger_fast_return

SpecCommit == InitCommit /\ [][NextCommit]_vars

(***************************************************************************)
(* Decoding on its own: reports of 15 bytes and more whose button bytes    *)
(* carry bits of the table and bits outside it.                            *)
(***************************************************************************)
ByteSamples == {0, 1, 2, 4, 8, 16, 32, 64, 128, 85, 170, 127, 255}

\* a report with the three button bytes given, every other byte `fill`, and
\* `extra` bytes after the fifteenth
ButtonReport(b3, b4, b5, fill, extra) ==
    [ i \in 1..(MinReport + extra) |->
        IF i = 4 THEN b3 ELSE IF i = 5 THEN b4 ELSE IF i = 6 THEN b5 ELSE fill ]

DecodeReports ==
    { ButtonReport(b3, b4, b5, fill, extra) :
        b3 \in ByteSamples, b4 \in ByteSamples, b5 \in ByteSamples,
        fill \in {0, 255}, extra \in {0, 1} }

InitDecode ==
    /\ SessionInit
    /\ available = TRUE
    /\ fx \in [ kind : {"decode"}, stage : {"in"}, data : DecodeReports,
                frame : {NeutralPad} ]

\* process_controller_data from the length test to the trigger bytes
decode ==
    /\ fx.kind = "decode"
    /\ fx.stage = "in"
    /\ Len(fx.data) >= MinReport
    /\ fx' = [fx EXCEPT !.stage = "out", !.frame = Decode(fx.data)]
    /\ UNCHANGED <<SessionVars, SinkVars, UiVars, ThreadVars, available, calibration, hist>>

NextDecode == decode

SpecDecode == InitDecode /\ [][NextDecode]_vars

(***************************************************************************)
(* The stick path of update_virtual_controller on its own: every 12-bit    *)
(* sample on each of the four axes, packed into a report as the device     *)
(* packs it, decoded and pushed.                                           *)
(***************************************************************************)
StickRaws == 0..(2 * StickMid - 1)
StickAxes == {"lx", "ly", "rx", "ry"}

\* a 15-byte report carrying the four 12-bit samples, no button, no trigger
StickReport(lx, ly, rx, ry) ==
    << 0, 0, 0, 0, 0, 0,
       lx % 256, (lx \div 256) + 16 * (ly % 16), ly \div 16,
       rx % 256, (rx \div 256) + 16 * (ry % 16), ry \div 16,
       0, 0, 0 >>

\* the report with the sample on one axis and the other three centred
AxisReport(axis, raw) ==
    StickReport(IF axis = "lx" THEN raw ELSE StickMid,
                IF axis = "ly" THEN raw ELSE StickMid,
                IF axis = "rx" THEN raw ELSE StickMid,
                IF axis = "ry" THEN raw ELSE StickMid)

InitStick ==
    /\ SessionInit!1 /\ SessionInit!2 /\ SessionInit!3 /\ SessionInit!4
    /\ SessionInit!5 /\ SessionInit!6
    /\ is_emulating = TRUE
    /\ gamepad = 1
    /\ pad \in {NeutralPad, DirtyPad}
    /\ committed = pad
    /\ emulate_btn = "normal"
    /\ status = "Xbox 360 emulation active"
    /\ ui = [pc |-> "idle", op |-> "none"]
    /\ tpc = [t \in Threads |-> "unborn"]
    /\ th = [t \in Threads |-> None]
    /\ tdata = [t \in Threads |-> <<>>]
    /\ tcal = [t \in Threads |-> <<0, 0>>]
    /\ tcause = [t \in Threads |-> "none"]
    /\ tpush = [t \in Threads |-> NoPush]
    /\ counter = -1
    /\ calibration = DefaultCalibration
    /\ cached = <<>>
    /\ hist = NoHist
    /\ available = TRUE
    /\ fx \in { [ kind |-> "push", stage |-> "in", data |-> AxisReport(a, r),
                  axis |-> a, raw |-> r ] : a \in StickAxes, r \in StickRaws }

SpecStick == InitStick /\ [][NextPush]_vars

(***************************************************************************)
(* Properties.                                                             *)
(***************************************************************************)
\* the status line a failed read would have to produce; the only message the
\* read thread ever posts is that of the outer except clause
ReadErrorStatus == "Read loop error"

UvcPcs == {"uvc_sticks", "uvc_cal", "uvc_btn", "uvc_trig", "uvc_commit"}

\* C1: once a read thread has ended because a device.read it had entered on an
\* open handle raised, and no handler is running, is_reading is false, the
\* handle the read was made on is closed, self.device is None and a status
\* message about the failure has been posted.
C1_ReadErrorEndsSession ==
    \A t \in Threads :
        (tpc[t] = "done" /\ tcause[t] = "readerr" /\ ui.pc = "idle")
        => /\ ~is_reading
           /\ hstate[th[t]] = "closed"
           /\ device = None
           /\ status = ReadErrorStatus

\* C2: device.read is never called on a handle that has already been closed.
C2_NoReadOnClosedHandle == ~hist.readOnClosed

\* C3: close() is never called twice on a handle, and once the window has
\* been closed every handle that was opened has been closed exactly once.
C3_ClosedExactlyOnce ==
    /\ \A h \in Handles : closeCalls[h] <= 1
    /\ ui.pc = "destroyed" =>
         \A h \in Handles : hstate[h] \in {"open", "closed"} => closeCalls[h] = 1

\* C4: at most one device handle is open at any time.
C4_AtMostOneOpenHandle == Cardinality({h \in Handles : hstate[h] = "open"}) <= 1

\* C5: when connect_controller has returned because USB bring-up or the HID
\* open failed, the read loop has not been started and self.device is None.
C5_FailedConnectHoldsNothing ==
    (ui.pc = "idle" /\ hist.connFail # "none")
    => /\ ~is_reading
       /\ \A t \in Threads : Ended(t)
       /\ device = None

\* C6: a step in which something raises inside update_virtual_controller
\* leaves the read thread inside process_controller_data with no reason to
\* leave the loop, and a full report met while emulation is active goes to
\* update_virtual_controller whether or not an earlier push raised.
C6_PushErrorKeepsLoop ==
    [][ \A t \in Threads :
          /\ (tpc[t] \in UvcPcs /\ ~tpush[t].err /\ tpush'[t].err)
               => (tpc'[t] = "throttle" /\ tcause'[t] = "none")
          /\ (tpc[t] = "pcd" /\ tpc'[t] # "pcd" /\ Len(tdata[t]) >= MinReport
                /\ is_emulating /\ gamepad # None)
               => tpc'[t] = "uvc_chk" ]_vars

\* C6 witness: a read thread has committed a push after one of its earlier
\* pushes raised.
C6_Witness == hist.recovered

\* C7 as stated: every update_virtual_controller call that found a pad has
\* made exactly one gamepad.update() call when it returns, and the commits
\* made by finished pushes equal the pushes.
C7_OneCommitPerPush ==
    /\ \A t \in Threads :
         (tpc[t] = "throttle" /\ tpush[t].present) => tpush[t].commits = 1
    /\ (\A t \in Threads : tpc[t] \notin UvcPcs) => hist.commits = hist.pushes

\* C7 amended: a call makes at most one gamepad.update() call; it has made
\* exactly one when it returns without anything having raised and none when
\* something raised; the commits equal the pushes in which nothing raised.
C7_OneCommitPerCleanPush ==
    /\ \A t \in Threads :
         /\ tpush[t].commits <= 1
         /\ (tpc[t] = "throttle" /\ tpush[t].present)
              => tpush[t].commits = IF tpush[t].err THEN 0 ELSE 1
    /\ (\A t \in Threads : tpc[t] \notin UvcPcs)
         => hist.commits = hist.pushes - hist.pushErrs

\* C7 witness: a push has returned after its commit while an earlier push
\* had raised.
C7_Witness ==
    \E t \in Threads :
        /\ tpc[t] = "throttle" /\ tpush[t].present
        /\ ~tpush[t].err /\ tpush[t].commits = 1
        /\ hist.pushErrs > 0

\* C8: after a push, Back is pressed in the committed report exactly when
\* Capture or Chat is pressed in the frame.
C8_BackIffCaptureOrChat ==
    (fx.kind = "push" /\ fx.stage = "out")
    => ("XUSB_GAMEPAD_BACK" \in committed.pressed
          <=> \/ "Capture" \in Decode(fx.data).pressed
              \/ "Chat" \in Decode(fx.data).pressed)

\* C9: after a push, the left trigger sent is 255 when L is pressed and the
\* calibrated raw left byte otherwise, and likewise on the right with R.
C9_TriggerOverride ==
    (fx.kind = "push" /\ fx.stage = "out")
    => LET f == Decode(fx.data)
       IN /\ committed.lt = IF "L" \in f.pressed THEN 255
                            ELSE CalibrateBody(At(fx.data, 13), cached.left_base,
                                     cached.left_bump, cached.left_max,
                                     cached.bump_100_percent)
          /\ committed.rt = IF "R" \in f.pressed THEN 255
                            ELSE CalibrateBody(At(fx.data, 14), cached.right_base,
                                     cached.right_bump, cached.right_max,
                                     cached.bump_100_percent)

\* C9 witness: a pushed frame with L pressed over a raw left byte that
\* calibrates below full scale, and R released.
C9_Witness ==
    /\ fx.kind = "push" /\ fx.stage = "out"
    /\ "L" \in Decode(fx.data).pressed
    /\ "R" \notin Decode(fx.data).pressed
    /\ calibrate_trigger_fast(At(fx.data, 13), "left", cached) < 255
    /\ committed.lt = 255
    /\ committed.rt = calibrate_trigger_fast(At(fx.data, 14), "right", cached)

\* C10: both calibration functions return an integer in 0..255 for every raw
\* byte and every sampled choice of base, bump, max and mode.
C10_CalibratedInRange ==
    (fx.kind = "cal" /\ fx.stage = "out")
    => /\ fx.fast \in 0..255
       /\ fx.slow \in 0..255

\* C10 witness: a result computed from malformed breakpoints (base above
\* bump, max below base) for a raw value above all three.
C10_Witness ==
    /\ fx.kind = "cal" /\ fx.stage = "out"
    /\ fx.base > fx.bump /\ fx.max_val < fx.base
    /\ fx.raw > fx.base

\* the range the mode of the sampled profile selects
C_SelectedRange == IF fx.bump100 THEN fx.bump - fx.base ELSE fx.max_val - fx.base

\* C11: for a valid calibration (base < bump <= max), in either mode and for
\* both functions, the output for the raw value is 0 when raw <= base and is
\* not above the output for any larger raw value up to 255.
C11_MonotoneAndZeroBelowBase ==
    (fx.kind = "cal" /\ fx.stage = "out" /\ fx.base < fx.bump /\ fx.bump <= fx.max_val)
    => /\ fx.raw <= fx.base => (fx.fast = 0 /\ fx.slow = 0)
       /\ \A r2 \in fx.raw..FullScale :
            /\ fx.fast <= calibrate_trigger_fast(r2, fx.side, CalProfile(fx))
            /\ fx.slow <= calibrate_trigger(r2, fx.side, CalProfile(fx))

\* C11 witness: a valid calibration and a raw value above base whose output
\* lies strictly between 0 and 255.
C11_Witness ==
    /\ fx.kind = "cal" /\ fx.stage = "out"
    /\ fx.base < fx.bump /\ fx.bump <= fx.max_val
    /\ fx.raw > fx.base
    /\ fx.fast > 0 /\ fx.fast < FullScale

\* C12: when the range the mode selects is not positive, both functions
\* return 0 for the raw value and no division has been evaluated.
C12_DegenerateRangeGivesZero ==
    (fx.kind = "cal" /\ fx.stage = "out" /\ C_SelectedRange <= 0)
    => (fx.fast = 0 /\ fx.slow = 0 /\ fx.divs = 0)

\* C12 witness: press-100% mode with max below base while bump is above
\* base, for a raw value above base.
C12_Witness ==
    /\ fx.kind = "cal" /\ fx.stage = "out"
    /\ ~fx.bump100 /\ fx.max_val < fx.base /\ fx.bump > fx.base
    /\ fx.raw > fx.base
    /\ fx.fast = 0

\* n / d rounded to the nearest integer, ties to the even one (Python's round)
C_RoundDiv(n, d) ==
    LET q == n \div d
        r == n % d
    IN IF 2 * r < d THEN q
       ELSE IF 2 * r > d THEN q + 1
       ELSE IF q % 2 = 0 THEN q ELSE q + 1

\* C13: for a profile with positive range the output of both functions is
\* max(0, raw - base) / range * 255 rounded to the nearest integer and
\* clamped to 0..255.
C13_RoundedToNearest ==
    (fx.kind = "cal" /\ fx.stage = "out" /\ C_SelectedRange > 0)
    => LET shifted == Max2(0, fx.raw - fx.base)
           rounded == Max2(0, Min2(FullScale,
                          C_RoundDiv(shifted * FullScale, C_SelectedRange)))
       IN fx.fast = rounded /\ fx.slow = rounded

\* the value the pad holds on an axis
C_Axis(p, axis) ==
    IF axis = "lx" THEN p.lx ELSE IF axis = "ly" THEN p.ly
    ELSE IF axis = "rx" THEN p.rx ELSE p.ry

\* C14: the axis value committed for a 12-bit sample is
\* (raw - 2048) / 2048 * 32767 rounded to the nearest integer (the clamp to
\* -1..1 never acts on a 12-bit sample), it lies in -32767..32767, and the
\* sample 2048 is sent as 0.
C14_StickRoundedToNearest ==
    (fx.kind = "push" /\ fx.stage = "out" /\ "raw" \in DOMAIN fx)
    => LET sent == C_Axis(committed, fx.axis)
       IN /\ sent = C_RoundDiv((fx.raw - StickMid) * StickScale, StickMid)
          /\ sent \in (-StickScale)..StickScale
          /\ fx.raw = StickMid => sent = 0

\* C15: the step in which process_controller_data meets a report shorter than
\* 15 bytes makes no virtual-controller call, posts nothing, leaves the frame
\* counter alone and returns the thread to the top of the read loop with no
\* reason to leave it.
C15_ShortReportDropped ==
    [][ \A t \in Threads :
          (tpc[t] = "pcd" /\ tpc'[t] # "pcd" /\ Len(tdata[t]) < MinReport)
          => /\ tpc'[t] = "loop"
             /\ tcause'[t] = "none"
             /\ counter' = counter
             /\ hist'.posts = hist.posts
             /\ hist'.pushes = hist.pushes
             /\ pad' = pad /\ committed' = committed
             /\ ~tpush'[t].present ]_vars

\* C15 witness: a thread that had dropped a short report has since taken a
\* full report through process_controller_data up to the frame counter.
C15_Witness ==
    \E t \in Threads :
        tpush[t].dropped /\ tpc[t] = "throttle" /\ Len(tdata[t]) >= MinReport

\* the bit of a single-bit mask, read arithmetically
C_BitOn(byte, mask) == byte % (2 * mask) >= mask

\* the report with every bit outside the button table cleared
C_TableBitsOnly(data) ==
    [ i \in 1..Len(data) |->
        IF i = 4 THEN data[i] % 128
        ELSE IF i = 5 THEN data[i] % 64
        ELSE IF i = 6 THEN data[i] % 32
        ELSE 0 ]

\* C16: for a report of 15 bytes or more the decoded button set holds the name
\* of each of the 18 table entries exactly when its bit is set in its byte,
\* holds no other name, and is the same as for the report with every bit
\* outside the table cleared.
C16_ButtonsExactlyTableBits ==
    (fx.kind = "decode" /\ fx.stage = "out")
    => /\ Len(buttons) = 18
       /\ \A i \in 1..Len(buttons) :
            buttons[i].name \in fx.frame.pressed
              <=> C_BitOn(At(fx.data, buttons[i].byte_index), buttons[i].mask)
       /\ fx.frame.pressed \subseteq { buttons[i].name : i \in 1..Len(buttons) }
       /\ fx.frame.pressed = ButtonStates(C_TableBitsOnly(fx.data))

\* C16 witness: a decoded report whose byte 3 has the bit outside the table
\* set together with the bit of A and without the bit of B.
C16_Witness ==
    /\ fx.kind = "decode" /\ fx.stage = "out"
    /\ At(fx.data, 3) >= 128
    /\ "A" \in fx.frame.pressed
    /\ "B" \notin fx.frame.pressed

\* C17: whenever no handler is running and no read thread is in its loop,
\* emulation is not active and the emulation button is disabled.
C17_EmulationOnlyWhileReading ==
    (ui.pc = "idle" /\ \A t \in Threads : Ended(t))
    => (~is_emulating /\ emulate_btn = "disabled")

\* C18: the steps of a start_emulation call that ends in a failure (the
\* entry into the handler with emulation off, and the pad creation that
\* raises) leave is_emulating false and gamepad None and change nothing of
\* the device session; a handler that has just failed leaves the bridge
\* inactive.
C18_FailedStartChangesNothing ==
    [][ /\ ((ui.pc = "idle" /\ ui'.pc = "se_create")
              \/ (ui.pc = "se_create" /\ ui'.pc = "idle"))
            => /\ ~is_emulating /\ gamepad = None
               /\ ~is_emulating' /\ gamepad' = None
               /\ UNCHANGED <<is_reading, device, hstate, closeCalls,
                              stop_reading, read_thread>>
        /\ hist'.emuFail => (~is_emulating' /\ gamepad' = None) ]_vars

\* C18 witness: pad creation has just failed while the device session was
\* reading.
C18_Witness ==
    /\ hist.emuFail /\ ui.pc = "idle"
    /\ is_reading /\ device # None /\ read_thread # None

\* C19: when stop_xbox_emulation, called with emulation active, has released
\* the pad, gamepad is None and is_emulating is false, and if reset() and
\* update() both returned the report last committed to the pad is the
\* neutral one.
C19_StopReleasesNeutralPad ==
    ui.pc = "sxe_fin"
    => /\ gamepad = None
       /\ ~is_emulating
       /\ hist.resetOk => committed = NeutralPad

\* C19 as far as the release goes: gamepad is None and is_emulating is false
\* whether or not reset() or update() raised.
C19_StopAlwaysReleases ==
    ui.pc = "sxe_fin" => (gamepad = None /\ ~is_emulating)

\* C20: once load_settings has run the profile holds exactly the eight known
\* fields, and the file a later save has written holds no other key.
C20_UnknownKeysIgnored ==
    /\ (fx.kind = "settings" /\ fx.stage # "boot")
         => DOMAIN calibration = KnownFields
    /\ (fx.kind = "settings" /\ fx.stage = "saved")
         => DOMAIN fx.file.dict \subseteq KnownFields

\* C21: right after load_settings every known field the file's record does
\* not supply holds its default, and for a file that is absent, does not
\* parse or is no JSON object all eight fields hold their defaults.
C21_DefaultsKept ==
    (fx.kind = "settings" /\ fx.stage = "loaded" /\ ~fx.round)
    => /\ fx.file.state = "dict"
            => \A k \in KnownFields \ DOMAIN fx.file.dict :
                  calibration[k] = DefaultCalibration[k]
       /\ fx.file.state # "dict"
            => \A k \in KnownFields : calibration[k] = DefaultCalibration[k]

C23_TimeoutStep(t) ==
    /\ tpc[t] = "reading"
    /\ tpc'[t] \notin {"reading", "finally"}
    /\ tdata'[t] = <<>>

C23_TimeoutsPublishNothing ==
    [][\A t \in DOMAIN tpc :
         C23_TimeoutStep(t) =>
           /\ tpc'[t] = "loop"
           /\ counter' = counter
           /\ hist'.posts = hist.posts
           /\ hist'.pushes = hist.pushes
           /\ hist'.commits = hist.commits
           /\ pad' = pad
           /\ committed' = committed
           /\ tcause'[t] = tcause[t]
           /\ is_reading' = is_reading]_vars

\* a thread that has timed out MaxTimeouts times in a row after the device had
\* delivered a full report, and has gone round the loop to its next read
C23_Witness ==
    \E t \in DOMAIN tpc :
        /\ tpush[t].timeouts = MaxTimeouts
        /\ tpc[t] = "read"
        /\ counter >= 0


\* C24: the sink is used by one thread at a time: while stop_xbox_emulation is
\* between its reset() and its update(), no read thread is between the first
\* and the last sink call of a push, and the state reset() has put into the
\* sink is still there, with no press or axis value of the read thread on top
C24_MidPush(t) == tpc[t] \in {"uvc_cal", "uvc_btn", "uvc_trig", "uvc_commit"}

C24_SinkOneThreadAtATime ==
    ui.pc = "sxe_update"
    => /\ \A t \in DOMAIN tpc : ~C24_MidPush(t)
       /\ pad = NeutralPad


\* C25: the values a calibrate_trigger_fast call has read, the base, the mode
\* and the end of the range the mode selects, are those of one profile that
\* has been in effect as a whole, never some fields of one profile and some of
\* another
C25_SideOf(p, side) ==
    IF side = "left"
      THEN [base |-> p.left_base, bump |-> p.left_bump, max |-> p.left_max,
            mode |-> p.bump_100_percent]
      ELSE [base |-> p.right_base, bump |-> p.right_bump, max |-> p.right_max,
            mode |-> p.bump_100_percent]

C25_SameProfile(u, v) ==
    /\ u.base = v.base
    /\ u.mode = v.mode
    /\ IF u.mode THEN u.bump = v.bump ELSE u.max = v.max

C25_WholeProfileRead ==
    (fx.kind = "commit" /\ fx.rpc = "ret")
    => \E p \in fx.seen : C25_SameProfile(fx.used, C25_SideOf(p, fx.side))


\* C26: once stop_reading_input has set the stop flag for a read thread that
\* is running, that thread ends, and is_reading is false when it has ended
\* (unless the window is destroyed first, which ends the process)
C26_StopRequested(t) ==
    /\ fx.kind = "stop"
    /\ stop_reading
    /\ read_thread = t
    /\ ~Ended(t)

C26_StopTerminates ==
    \A t \in ReadThreads :
        C26_StopRequested(t) ~> ((tpc[t] = "done" /\ ~is_reading) \/ ~Running)


\* C27: the frame counter changes and a frame is posted to the Tk thread only
\* in the step of a read thread that has the emulation block of its frame
\* behind it: a push that was begun has committed or has raised, and the
\* block is passed over without a push only when gamepad is None by then
C27_PushDone(t) ==
    tpush[t].present => (tpush[t].commits = CommitsPerPush \/ tpush[t].err)

C27_PushBeforeCounterAndPosts ==
    [][ /\ (counter' # counter \/ hist'.posts # hist.posts)
             => \E t \in DOMAIN tpc :
                    /\ tpc[t] = "throttle"
                    /\ tpc'[t] = "loop"
                    /\ C27_PushDone(t)
        /\ \A t \in DOMAIN tpc :
             /\ (tpc[t] \in UvcPcs /\ tpc'[t] # tpc[t])
                  => (counter' = counter /\ hist'.posts = hist.posts)
             /\ (tpc[t] = "uvc_chk" /\ tpc'[t] = "throttle") => gamepad = None
      ]_vars

\* every frame read so far has been pushed and committed and then counted,
\* a post has been made, and emulation is still active
C27_Witness ==
    \E t \in DOMAIN tpc :
        /\ tpc[t] = "loop"
        /\ is_emulating
        /\ hist.commits = hist.frames
        /\ hist.commits >= 1
        /\ counter = hist.frames - 1
        /\ hist.posts >= 1


\* C28: of the last three frames counted exactly one was posted to the Tk
\* thread, through disconnects and reconnects
C28_Posted(w) == Cardinality({ i \in 1..Len(w) : w[i] })

C28_OneInThree ==
    Len(hist.window) = UiEvery => C28_Posted(hist.window) = 1


\* C30: at most one read thread is alive (started and not yet past its
\* finally clause) in every reachable state
C30_AtMostOneReadThread ==
    Cardinality({ t \in DOMAIN tpc : ~Ended(t) }) <= 1


\* C29: frames are pushed one at a time: no push begins while another has
\* not returned
C29_InPush(t) == tpc[t] \in UvcPcs \cup {"uvc_chk"}

C29_OnePushAtATime ==
    Cardinality({ t \in DOMAIN tpc : C29_InPush(t) }) <= 1


\* C31: whenever is_emulating is true a pad is held (gamepad is not None), in
\* every state the handlers and the read thread can reach: start_emulation
\* creates the pad before it raises the flag and stop_xbox_emulation lowers
\* the flag before it clears the pad
C31_EmulatingHoldsPad ==
    is_emulating => gamepad # None

\* emulation is active with a pad held and no handler running, a push has
\* committed before, the pad's committed report is the neutral one, and a
\* read thread is in the middle of a push
C31_Witness ==
    /\ is_emulating
    /\ gamepad # None
    /\ ui.pc = "idle"
    /\ hist.commits >= 1
    /\ committed = NeutralPad
    /\ \E t \in DOMAIN tpc : tpc[t] \in UvcPcs


\* C32: update_calibration_from_ui is all or nothing: in the step in which
\* save_settings runs it, if one of the six entries is no number the profile
\* and the cached profile are left exactly as they were, and if all six are
\* numbers every field of both holds the value of its entry or button
C32_SaveStep ==
    /\ fx.kind = "settings"
    /\ fx.stage = "ready"
    /\ fx'.stage \in {"saved", "unsaved"}

C32_AllValid ==
    \A i \in 1..Len(NumericFields) : ~FloatRaises(fx.uivars[NumericFields[i]])

C32_UiValue(k) ==
    IF \E i \in 1..Len(NumericFields) : NumericFields[i] = k
      THEN Float(fx.uivars[k])
      ELSE fx.uivars[k]

C32_AllOrNothing ==
    [][ C32_SaveStep =>
          IF C32_AllValid
            THEN \A k \in KnownFields : /\ calibration'[k] = C32_UiValue(k)
                                        /\ cached'[k] = C32_UiValue(k)
            ELSE /\ calibration' = calibration
                 /\ cached' = cached ]_vars

====
